---- MODULE Spec2Model ----
(***************************************************************************)
(* A model of chug (src/src/lib.rs): the LeakyBucket window of Instants    *)
(* and the Chug estimator built on it.                                     *)
(*                                                                         *)
(* An Instant is modelled as a number of nanoseconds on the monotonic      *)
(* clock; a Duration returned by eta() as its number of whole              *)
(* milliseconds.  Option values are tagged tuples.                         *)
(*                                                                         *)
(* usize is 64 bits wide.  The values that can be large (_total_work, what *)
(* remains of it, and the estimate) are kept as pairs <<hi, lo>> standing  *)
(* for hi * 2^60 + lo, with lo small, so that 2^64 is <<16, 0>> and        *)
(* usize::MAX is <<16, -1>>; the counters that stay small are integers.    *)
(*                                                                         *)
(* A panic (Vec::remove on an index that is out of bounds, the capacity    *)
(* overflow of Vec::with_capacity, an arithmetic overflow in a build with  *)
(* overflow checks) or an abort (a failed allocation) ends the run: the    *)
(* flag panicked is set, the fields keep what had been assigned before,    *)
(* and no further call is made.                                            *)
(***************************************************************************)
EXTENDS Integers, Sequences, FiniteSets

VARIABLES
    last_n,        \* LeakyBucket._last_n : Vec<Instant>, oldest first
    max,           \* LeakyBucket._max
    current_work,  \* Chug._current_work
    total_work,    \* Chug._total_work
    clock,         \* the monotonic clock read by Instant::now(), in ns
    calls,         \* number of tick() calls begun
    inserted,      \* every Instant pushed by LeakyBucket::insert, in order
    ret,           \* what the most recent call returned
    eta_calls,     \* number of eta() calls made since the most recent tick()
    overflow_checks, \* the build panics on arithmetic overflow (debug) or wraps
    panicked       \* a call has panicked or aborted the process

vars == <<last_n, max, current_work, total_work, clock, calls, inserted, ret,
          eta_calls, overflow_checks, panicked>>

----------------------------------------------------------------------------
(* Bounds of the model *)

MaxCap == 3
MaxTotal == 4
MaxTicks == 6
MaxEtas == 2

\* Time that may pass between two reads of the clock, in nanoseconds:
\* none, 1.5 ms, 3 ms, 3.5 ms.
Steps == {0, 1500000, 3000000, 3500000}

----------------------------------------------------------------------------
(* Values *)

None == <<"None">>
Some(d) == <<"Some", d>>
IsSome(o) == o[1] = "Some"
Unit == <<"Unit">>
Panic == <<"Panic">>

Min(a, b) == IF a < b THEN a ELSE b

\* usize values that can be large: <<hi, lo>> stands for hi * 2^60 + lo.
\* UsizeUnits is 2^64 in units of 2^60.
UsizeUnits == 16
usize_of(n) == <<0, n>>
usize_lt(a, b) == a[1] < b[1] \/ (a[1] = b[1] /\ a[2] < b[2])

\* a - n for an integer n <= a.
usize_sub(a, n) == <<a[1], a[2] - n>>

\* The product n * a as a number, n an integer; whether it is 2^64 or more;
\* and the product modulo 2^64.
usize_mul(n, a) == <<n * a[1], n * a[2]>>
usize_overflows(p) == p[1] > UsizeUnits \/ (p[1] = UsizeUnits /\ p[2] >= 0)
usize_wrap(p) ==
    LET h == p[1] % UsizeUnits
    IN  IF h = 0 /\ p[2] < 0 THEN <<UsizeUnits, p[2]>> ELSE <<h, p[2]>>

\* Duration::as_millis: whole milliseconds of a Duration held in nanoseconds.
NanosPerMilli == 1000000
as_millis(d) == d \div NanosPerMilli

\* Instant::duration_since: saturates at zero when earlier is later than self.
duration_since(self, earlier) == IF self >= earlier THEN self - earlier ELSE 0

\* Duration::from_millis, the Duration being kept as its milliseconds.
from_millis(ms) == ms

\* Vec::remove(index), index counted from 0: panics when index >= len,
\* otherwise removes that element and shifts the later ones left.
Vec_remove_panics(v, index) == index >= Len(v)
Vec_remove(v, index) ==
    [j \in 1..(Len(v) - 1) |-> IF j <= index THEN v[j] ELSE v[j + 1]]

----------------------------------------------------------------------------
(* LeakyBucket *)

\* Vec::<Instant>::with_capacity(m), an Instant taking 16 bytes: panics with
\* "capacity overflow" when m * 16 exceeds isize::MAX (m >= 2^59), allocates
\* nothing for m = 0, and otherwise aborts the process when the allocator
\* does not supply the m * 16 bytes (alloc_ok tells whether it does).
Vec_with_capacity_fails(m, alloc_ok) ==
    \/ (m \div 536870912) >= 1073741824
    \/ (m > 0 /\ ~alloc_ok)

\* LeakyBucket::new(m): whether the construction failed, and the bucket.
LeakyBucket_new(m, alloc_ok) ==
    [panic |-> Vec_with_capacity_fails(m, alloc_ok), last_n |-> <<>>, max |-> m]

len(b) == Len(b)

items(b) == b

\* insert without the eviction ever taking place (len > max for len == max).
insert_never_evicts(b, m, now) ==
    IF Len(b) > m
    THEN IF Vec_remove_panics(b, 0)
         THEN [panic |-> TRUE, last_n |-> b]
         ELSE [panic |-> FALSE, last_n |-> Append(Vec_remove(b, 0), now)]
    ELSE [panic |-> FALSE, last_n |-> Append(b, now)]

\* insert evicting the newest item (remove(len - 1) for remove(0)).
insert_evicts_newest(b, m, now) ==
    IF Len(b) = m
    THEN IF Vec_remove_panics(b, Len(b) - 1) \/ Len(b) = 0
         THEN [panic |-> TRUE, last_n |-> b]
         ELSE [panic |-> FALSE, last_n |-> Append(Vec_remove(b, Len(b) - 1), now)]
    ELSE [panic |-> FALSE, last_n |-> Append(b, now)]

\* insert evicting one item too early (len + 1 == max for len == max).
insert_evicts_early(b, m, now) ==
    IF Len(b) + 1 = m
    THEN IF Vec_remove_panics(b, 0)
         THEN [panic |-> TRUE, last_n |-> b]
         ELSE [panic |-> FALSE, last_n |-> Append(Vec_remove(b, 0), now)]
    ELSE [panic |-> FALSE, last_n |-> Append(b, now)]

\* insert putting the new item first (insert(0, now) for push(now)).
insert_at_front(b, m, now) ==
    IF Len(b) = m
    THEN IF Vec_remove_panics(b, 0)
         THEN [panic |-> TRUE, last_n |-> b]
         ELSE [panic |-> FALSE, last_n |-> <<now>> \o Vec_remove(b, 0)]
    ELSE [panic |-> FALSE, last_n |-> <<now>> \o b]

\* LeakyBucket::insert on a bucket with items b and capacity m.
\* The result tells whether the call panicked and the items afterwards.
insert(b, m, now) ==
    IF Len(b) = m
    THEN IF Vec_remove_panics(b, 0)
         THEN [panic |-> TRUE, last_n |-> b]
         ELSE [panic |-> FALSE, last_n |-> Append(Vec_remove(b, 0), now)]
    ELSE [panic |-> FALSE, last_n |-> Append(b, now)]

----------------------------------------------------------------------------
(* Chug::eta *)

\* The loop of eta(): i is the position of the next item, last the
\* Option<Instant> seen before it, sum the milliseconds added so far.
RECURSIVE eta_loop(_, _, _, _)
eta_loop(its, i, last, sum) ==
    IF i > Len(its)
    THEN sum
    ELSE eta_loop(its, i + 1, Some(its[i]),
                  IF IsSome(last)
                  THEN sum + as_millis(duration_since(its[i], last[2]))
                  ELSE sum)

average_between(b) == eta_loop(items(b), 1, None, 0) \div len(b)

\* Lines 135-136 of eta(): average_between * remaining in usize, then
\* Duration::from_millis.  A product of 2^64 or more panics in a build with
\* overflow checks and is taken modulo 2^64 in a build without.
estimate(avg, remaining, checks) ==
    LET p == usize_mul(avg, remaining)
    IN  IF usize_overflows(p)
        THEN IF checks THEN Panic ELSE Some(from_millis(usize_wrap(p)))
        ELSE Some(from_millis(p))

\* eta with the history test off by one (len < 1 for len < 2).
eta_of_len1(b, cur, tot, checks) ==
    IF len(b) < 1
    THEN None
    ELSE LET avg == average_between(b)
         IN  IF usize_lt(tot, usize_of(cur))
             THEN None
             ELSE LET remaining == usize_sub(tot, cur)
                  IN  IF remaining = usize_of(0)
                      THEN None
                      ELSE estimate(avg, remaining, checks)

\* eta without the test for remaining == 0.
eta_of_no_done(b, cur, tot, checks) ==
    IF len(b) < 2
    THEN None
    ELSE LET avg == average_between(b)
         IN  IF usize_lt(tot, usize_of(cur))
             THEN None
             ELSE LET remaining == usize_sub(tot, cur)
                  IN  estimate(avg, remaining, checks)

\* eta without the test for completed > total.
eta_of_no_overrun(b, cur, tot, checks) ==
    IF len(b) < 2
    THEN None
    ELSE LET avg == average_between(b)
         IN  LET remaining == usize_sub(tot, cur)
             IN  IF remaining = usize_of(0)
                 THEN None
                 ELSE estimate(avg, remaining, checks)

\* eta taking the distance between total and completed as what remains.
eta_of_abs_diff(b, cur, tot, checks) ==
    IF len(b) < 2
    THEN None
    ELSE LET avg == average_between(b)
         IN  LET remaining == IF usize_lt(tot, usize_of(cur))
                              THEN usize_of(cur - tot[2])
                              ELSE usize_sub(tot, cur)
             IN  IF remaining = usize_of(0)
                 THEN None
                 ELSE estimate(avg, remaining, checks)

\* Chug::eta on the fields b, cur, tot: None, Some(milliseconds) or Panic.
eta_of(b, cur, tot, checks) ==
    IF len(b) < 2
    THEN None
    ELSE LET avg == average_between(b)
         IN  IF usize_lt(tot, usize_of(cur))
             THEN None
             ELSE LET remaining == usize_sub(tot, cur)
                  IN  IF remaining = usize_of(0)
                      THEN None
                      ELSE estimate(avg, remaining, checks)

eta == eta_of(last_n, current_work, total_work, overflow_checks)

----------------------------------------------------------------------------
(* The state machine *)

\* The capacities and totals Chug::new is called with: the small ones, a
\* capacity whose allocation the machine may refuse, and totals near 2^63
\* and 2^64 (2^63 + 3 and usize::MAX).
HugeCap == 2147483647
Capacities == 0..MaxCap \cup {HugeCap}
BigTotals == {<<8, 3>>, <<UsizeUnits, -1>>}
Totals == {usize_of(t) : t \in 0..MaxTotal} \cup BigTotals

\* Chug::new(m, t).  When the construction fails no Chug exists; the fields
\* then hold the arguments and the empty bucket.
Init ==
    \E m \in Capacities, t \in Totals, alloc_ok \in BOOLEAN :
        /\ (m < HugeCap => alloc_ok)
        /\ overflow_checks \in BOOLEAN
        /\ max = LeakyBucket_new(m, alloc_ok).max
        /\ last_n = LeakyBucket_new(m, alloc_ok).last_n
        /\ panicked = LeakyBucket_new(m, alloc_ok).panic
        /\ total_work = t
        /\ current_work = 0
        /\ clock = 0
        /\ calls = 0
        /\ inserted = <<>>
        /\ ret = Unit
        /\ eta_calls = 0

\* Chug::tick, after d nanoseconds have passed since the clock was last read
Tick ==
    /\ ~panicked
    /\ calls < MaxTicks
    /\ \E d \in Steps :
         LET now == clock + d
             r   == insert(last_n, max, now)
         IN  /\ clock' = now
             /\ calls' = calls + 1
             /\ current_work' = current_work + 1
             /\ last_n' = r.last_n
             /\ panicked' = r.panic
             /\ inserted' = IF r.panic THEN inserted ELSE Append(inserted, now)
             /\ ret' = Unit
             /\ eta_calls' = 0
    /\ UNCHANGED <<max, total_work, overflow_checks>>

\* eta emptying the bucket it reads (draining the Vec for iterating it).
Eta_drains ==
    /\ ~panicked
    /\ eta_calls < MaxEtas
    /\ ret' = eta
    /\ eta_calls' = eta_calls + 1
    /\ last_n' = <<>>
    /\ panicked' = (eta = Panic)
    /\ UNCHANGED <<max, current_work, total_work, clock, calls, inserted, overflow_checks>>

\* Chug::eta; ret is Panic when the call panicked instead of returning.
Eta ==
    /\ ~panicked
    /\ eta_calls < MaxEtas
    /\ ret' = eta
    /\ panicked' = (eta = Panic)
    /\ eta_calls' = eta_calls + 1
    /\ UNCHANGED <<last_n, max, current_work, total_work, clock, calls, inserted, overflow_checks>>

Next == Tick \/ Eta

Spec == Init /\ [][Next]_vars

----------------------------------------------------------------------------
(* Properties *)

\* The last k elements of s.
LastK(s, k) == SubSeq(s, Len(s) - k + 1, Len(s))

\* The sum, over the consecutive pairs of t from oldest to newest, of the
\* whole milliseconds between the two.
IntervalSum(t) ==
    LET f[i \in 1..Len(t)] ==
            IF i = 1 THEN 0 ELSE f[i - 1] + ((t[i] - t[i - 1]) \div 1000000)
    IN  IF Len(t) = 0 THEN 0 ELSE f[Len(t)]

\* completed < total, and completed >= total.
WorkRemains == usize_lt(usize_of(current_work), total_work)
Finished == ~WorkRemains

\* total is one of the small totals, t or more.
SmallTotalAtLeast(t) == total_work[1] = 0 /\ total_work[2] >= t

\* n * (total - completed) as a number, whatever its size.
TimesRemaining(n) == <<n * total_work[1], n * (total_work[2] - current_work)>>

\* A number of milliseconds is more than zero.
Positive(ms) == usize_lt(usize_of(0), ms)

\* C1: while the window holds fewer than 2 timestamps, and so after zero
\* ticks and after one tick, eta() is None, whatever the capacity and total.
C1_FewerThanTwoIsNone ==
    /\ Len(last_n) < 2 => eta = None
    /\ calls <= 1 => eta = None
    /\ (ret # Unit /\ Len(last_n) < 2) => ret = None

\* eta() was called after exactly one tick, with work remaining, and gave None.
C1_Witness ==
    /\ calls = 1 /\ Len(last_n) = 1 /\ max >= 2
    /\ WorkRemains
    /\ ret = None

\* C2: whenever completed >= total (exactly total ticks, or more), eta() is
\* None, whatever the window holds.
C2_DoneOrOverrunIsNone ==
    /\ Finished => eta = None
    /\ (ret # Unit /\ Finished) => ret = None

\* eta() was called with completed > total on a window of at least two
\* timestamps with time between them, and gave None.
C2_Witness ==
    /\ SmallTotalAtLeast(2)
    /\ current_work > total_work[2]
    /\ Len(last_n) >= 2
    /\ IntervalSum(last_n) > 0
    /\ ret = None

\* C3: whenever the window holds at least 2 timestamps and completed < total,
\* eta() is Some, also when the ticks fall on the same millisecond; with
\* capacity >= 2 that is so after m ticks for every 2 <= m < total.
C3_EstimatingIsSome ==
    /\ (Len(last_n) >= 2 /\ WorkRemains) => IsSome(eta)
    /\ (max >= 2 /\ ~panicked /\ 2 <= calls /\ WorkRemains) => IsSome(eta)
    /\ (eta_calls > 0 /\ Len(last_n) >= 2 /\ WorkRemains) => IsSome(ret)

\* C4: a present estimate is floor(S / len) * (total - completed) milliseconds,
\* S being the sum of the whole-millisecond differences between consecutive
\* timestamps of the window and len the number of timestamps in the window.
C4_EtaValue ==
    /\ IsSome(eta) =>
         eta[2] = TimesRemaining(IntervalSum(last_n) \div Len(last_n))
    /\ IsSome(ret) =>
         ret[2] = TimesRemaining(IntervalSum(last_n) \div Len(last_n))

\* C5: the window never holds more timestamps than its capacity.
C5_LenAtMostMax == Len(last_n) <= max

\* More ticks than the capacity have been made and the window is full.
C5_Witness == max >= 1 /\ calls - 1 > max /\ Len(last_n) = max

\* C6: after n inserts the window holds the most recent min(n, capacity)
\* inserted timestamps, in insertion order (oldest first, newest last).
C6_FifoWindow == last_n = LastK(inserted, Min(Len(inserted), max))

\* Timestamps have been evicted from a window of at least two, and the
\* timestamps it holds differ.
C6_Witness ==
    /\ max >= 2 /\ Len(inserted) - 2 >= max
    /\ Len(last_n) = max
    /\ last_n[1] < last_n[2] /\ inserted[1] < last_n[1]

\* C7: for capacity >= 1 the window length after n inserts is min(n, capacity).
C7_LenIsMin ==
    max >= 1 => /\ Len(last_n) = Min(calls, max)
                /\ Len(inserted) = calls

\* Two more inserts than the capacity have been made and the window has
\* stayed at the capacity.
C7_Witness == max >= 2 /\ calls - 2 = max /\ Len(last_n) = max

\* C8: with capacity 0 every tick() completes normally, the window stays
\* empty and eta() is None in every reachable state.
C8_CapacityZeroLegal ==
    max = 0 => /\ ~panicked
               /\ Len(last_n) = 0
               /\ eta = None

\* C9: no call of tick() or eta() aborts, for any capacity and any total.
C9_NoCallAborts == calls + eta_calls > 0 => ~panicked

\* C10: every tick() succeeds, adds exactly 1 to completed and inserts exactly
\* one timestamp, so completed is the number of tick() calls made.
C10_TickCounts ==
    /\ (calls > 0 /\ ret = Unit) => ~panicked
    /\ current_work = calls
    /\ Len(inserted) = calls

\* C11: a call of eta() leaves the window, completed, total and the capacity
\* as they were, and eta() calls with no tick() between them return the same
\* value.
C11_EtaReadOnly ==
    [][eta_calls' > eta_calls =>
          /\ UNCHANGED <<last_n, max, current_work, total_work>>
          /\ ret' = eta
          /\ eta' = eta
          /\ eta_calls > 0 => ret' = ret]_vars

\* eta() has been called twice in a row on an estimating state with a
\* non-zero estimate.
C11_Witness ==
    /\ eta_calls = 2
    /\ IsSome(ret) /\ Positive(ret[2])
    /\ Len(last_n) = max /\ calls > max

\* C12 as stated: a present estimate is strictly greater than zero
\* milliseconds.
C12_PresentIsPositive ==
    /\ IsSome(eta) => Positive(eta[2])
    /\ IsSome(ret) => Positive(ret[2])

\* C12 as amended: a present estimate is given only while work remains
\* (total - completed > 0); it is at least zero milliseconds, and it is zero
\* whenever the mean interval floor(S / len) is zero.
C12_PresentWhileRemaining ==
    LET mean == IntervalSum(last_n) \div Len(last_n)
    IN  /\ IsSome(eta) => /\ WorkRemains
                          /\ ~usize_lt(eta[2], usize_of(0))
                          /\ mean = 0 => eta[2] = usize_of(0)
        /\ IsSome(ret) => /\ WorkRemains
                          /\ ~usize_lt(ret[2], usize_of(0))
                          /\ mean = 0 => ret[2] = usize_of(0)

\* eta() gave Some(0 ms) although time had passed between the ticks of the
\* window.
C12_Witness ==
    /\ IsSome(ret) /\ ret[2] = usize_of(0)
    /\ Len(last_n) >= 2
    /\ last_n[1] < last_n[Len(last_n)]
    /\ IntervalSum(last_n) > 0
    /\ IntervalSum(last_n) \div Len(last_n) = 0

\* Every two consecutive ticks made so far are exactly k milliseconds apart.
ConstantSpacing(k) ==
    \A i \in 2..Len(inserted) : inserted[i] - inserted[i - 1] = k * 1000000

\* The whole numbers of milliseconds tried as the spacing k.
Spacings == 0..4

\* What C13 gives for eta() after m ticks k milliseconds apart.
SpacedEta(k, m) ==
    LET L == Min(m, max)
    IN  TimesRemaining((k * (L - 1)) \div L)

\* C13, for the capacities with which an estimate exists (2 or more): with
\* ticks a constant k milliseconds apart, eta() after m ticks, 2 <= m < total,
\* is floor(k * (L - 1) / L) * (total - m) milliseconds, L = min(m, capacity),
\* and so at most k * (total - m).
C13_ConstantSpacing ==
    \A k \in Spacings :
        (max >= 2 /\ ConstantSpacing(k) /\ ~panicked /\ 2 <= calls /\ WorkRemains) =>
            /\ eta = Some(SpacedEta(k, calls))
            /\ ~usize_lt(TimesRemaining(k), SpacedEta(k, calls))

\* C14: with total = 0, eta() is None in every reachable state, after any
\* number of ticks and for any capacity.
C14_TotalZeroIsNone ==
    total_work = usize_of(0) => /\ eta = None
                                /\ eta_calls > 0 => ret = None

\* eta() was called with total = 0 after ticks that filled the window, with
\* time between them, and gave None.
C14_Witness ==
    /\ total_work = usize_of(0)
    /\ max >= 2 /\ calls > max
    /\ IntervalSum(last_n) >= Len(last_n)
    /\ eta_calls > 0 /\ ret = None

\* C15: the timestamps of the window are non-decreasing from oldest to newest,
\* so every interval eta() sums is >= 0 and every present estimate is >= 0.
C15_WindowNonDecreasing ==
    /\ \A i \in 1..(Len(last_n) - 1) :
          /\ last_n[i] <= last_n[i + 1]
          /\ last_n[i + 1] - last_n[i] >= 0
    /\ IsSome(eta) => ~usize_lt(eta[2], usize_of(0))
    /\ IsSome(ret) => ~usize_lt(ret[2], usize_of(0))

\* The window has evicted timestamps, holds strictly increasing ones, and
\* eta() gave a non-zero estimate.
C15_Witness ==
    /\ Len(last_n) >= 2 /\ calls > max
    /\ \A i \in 1..(Len(last_n) - 1) : last_n[i] < last_n[i + 1]
    /\ IsSome(ret) /\ Positive(ret[2])

\* C16: in a state with completed >= total eta() is None, and every step from
\* such a state leads to a state with completed >= total where eta() is None.
C16_FinishedAbsorbing ==
    [][Finished =>
          /\ eta = None
          /\ Finished'
          /\ eta' = None]_vars

\* Ticks went on after completed had reached total, on a window of at least
\* two timestamps with time between them, and eta() gave None.
C16_Witness ==
    /\ SmallTotalAtLeast(2)
    /\ current_work >= total_work[2] + 2
    /\ Len(last_n) >= 2
    /\ IntervalSum(last_n) >= Len(last_n)
    /\ eta_calls > 0 /\ ret = None

\* C18: with capacity 1 the window never holds more than one timestamp, and
\* eta() is None after any number of ticks and for any total.
C18_CapacityOneIsNone ==
    max = 1 => /\ Len(last_n) <= 1
               /\ eta = None
               /\ eta_calls > 0 => ret = None

\* eta() was called with capacity 1 after several ticks with time between
\* them and work remaining, and gave None.
C18_Witness ==
    /\ max = 1
    /\ calls >= 3 /\ WorkRemains
    /\ inserted[1] < inserted[2] /\ inserted[2] < inserted[3]
    /\ eta_calls > 0 /\ ret = None

====
